---- MODULE Spec2Model ----
(***************************************************************************)
(* Verification model of the orbital data cache (PlanetDataService), the   *)
(* frame transform (orbitalCalculations) and the animation driver          *)
(* (AnimationHandler) of the solar-system visualisation.                   *)
(*                                                                         *)
(* Calendar dates ("YYYY-MM-DD" strings) are day numbers: new Date(str) of *)
(* a well-formed string is the UTC midnight of that day, and               *)
(* toISOString().split('T')[0] is the UTC day of an instant.  The host     *)
(* time zone is taken to be UTC, where setDate(getDate() + 1) advances an  *)
(* instant by exactly one UTC day.  A malformed date string is BadDate;    *)
(* its Date is Invalid (time NaN) and every comparison with it is false.   *)
(***************************************************************************)
EXTENDS Integers, Sequences, FiniteSets, TLC

\* ------------------------------------------------------------------ bounds
MaxDay == 3         \* calendar dates handed to the operations are 1..MaxDay
NFailable == 1      \* bodies 2..1+NFailable are those whose request may fail
HorizonDays == 1    \* the "two months ahead" of initializeDataStore, in days
MaxSpan == 2        \* a playback covers 0..MaxSpan calendar days
ShortDuration == 300 \* the playback duration of the short sessions, in ms
SmallDelta == 30    \* a frame time below the clamp, in ms
BigDelta == 250     \* a frame time above the clamp, in ms
InterpDays == 2     \* the tables handed to the interpolator cover days 1..InterpDays
\* progress values of a blend up to its half
ProgressSteps == 2
\* mean anomalies of a turn
AnomalySteps == 8
\* frames before which a frame may arrive with no time elapsed
MaxStalledFrames == 2

\* --------------------------------------------------------------- constants
BodyCount == 9      \* PLANET_IDS.length, and the literal of checkDataAvailability
BadDate == -1       \* a malformed date string
MaxDeltaMs == 100   \* Math.min(delta, 0.1): the clamp on a frame's delta, in ms
DateUpdateMs == 100 \* the date display is updated when more than 100 ms passed
ORBIT_VISUALIZATION_SCALE == 9  \* 0.00000009 per km: 9 hundredths per 10^6 km

PLANET_IDS == <<"Sun", "Mercury", "Venus", "Earth", "Mars",
                "Jupiter", "Saturn", "Uranus", "Neptune">>

Bodies == 1..BodyCount
Days == 1..MaxDay
FailableBodies == 2..(1 + NFailable)

Valid(d) == d >= 0                         \* !isNaN(new Date(d).getTime())
DateLT(a, b) == Valid(a) /\ Valid(b) /\ a < b
DateLE(a, b) == Valid(a) /\ Valid(b) /\ a <= b
DateGT(a, b) == DateLT(b, a)
DateGE(a, b) == DateLE(b, a)

\* findIndex(p => p.id === '10')
sunIndex == CHOOSE k \in Bodies : PLANET_IDS[k] = "Sun"

Null == [null |-> TRUE]

\* the zero elements stored for the Sun
SunDefaults == [a |-> 0, e |-> 0, i |-> 0, om |-> 0, w |-> 0, M0 |-> 0, T |-> 0]

\* Semi-major axes (10^6 km) and periods (days) of the bodies, as the
\* ephemeris provider reports them; circular, coplanar orbits whose mean
\* anomaly advances by a quarter turn per day so that consecutive days differ.
SemiMajor == <<0, 58, 108, 150, 228, 778, 1430, 2870, 4500>>
Period == <<0, 88, 225, 365, 687, 4333, 10759, 30689, 60190>>

ProviderElements(k, d) ==
    [a |-> SemiMajor[k], e |-> 0, i |-> 0, om |-> 0, w |-> 0,
     M0 |-> 90 * ((d + k) % 4), T |-> Period[k]]

\* new Array(PLANET_IDS.length).fill(null)
EmptyRow == [k \in Bodies |-> Null]

\* -------------------------------------------------------------- variables
VARIABLES
    tablePresent,   \* AsyncStorage holds PLANET_DATA_KEY
    table,          \* the stored PlanetDataByDate: date -> row of 9 slots
    metaPresent,    \* AsyncStorage holds PLANET_DATA_META_KEY
    meta,           \* the stored PlanetDataMeta
    last,           \* the operation that completed last, its inputs and outcome
    pc,             \* per in-flight invocation: the await it is suspended at
    loc,            \* per in-flight invocation: its arguments and local variables
    session,        \* AnimationHandler props: startDate, endDate, animationDuration
    planetDataByDate,   \* AnimationHandler prop: the table handed to the screen
    readyToAnimate,     \* SolarSystemScreen state; the handler is mounted when true
    isAnimationActive,  \* SolarSystemScreen state
    isAnimationComplete,
    hasStartedRef,
    accumulatedMsRef,   \* ms
    currentDateRef,     \* the mapped instant
    currentDate,        \* the instant last given to setCurrentDate / onDateChange
    sinceDateUpdate,    \* Date.now() - lastDateUpdateRef.current at the last frame
    frameCountRef,
    cachedPositionsRef, \* name -> target, current, velocity
    allPlanetPositions, \* name -> position held for rendering
    frame,          \* the last frame: its kind, deltas so far, callbacks made
    call,           \* a function applied on its own: its name and arguments
    returned        \* what that application returned

NoTable == [d \in {} |-> EmptyRow]
NoMeta == [hasRange |-> FALSE, start |-> BadDate, end |-> BadDate]
NoOp == [op |-> "none"]

\* the invocations that can be in flight together: initializeDataStore started
\* by App on start-up, and fetchAndStoreDataForRange started by
\* loadPlanetDataForEvent when the user picks an event
Procs == {"startup", "user"}
IdleLoc == [op |-> "none", s |-> 0, e |-> 0, cutoff |-> 0, now |-> 0,
            data |-> NoTable, m |-> NoMeta]

\* ---------------------------------------------------------- pure helpers
RangeOf(seq) == {seq[n] : n \in 1..Len(seq)}

\* getDatesBetween: the dates from start to end inclusive; [] when either
\* string is malformed, and (the loop not entered) when end is before start.
getDatesBetween(startDateStr, endDateStr) ==
    IF ~Valid(startDateStr) \/ ~Valid(endDateStr) THEN << >>
    ELSE IF endDateStr < startDateStr THEN << >>
    ELSE [n \in 1..(endDateStr - startDateStr + 1) |-> startDateStr + n - 1]

\* fetchPlanetData(planetId, startDate, endDate) with the proxy request
\* answering (proxyOk) or throwing: formatDateForHorizons throws on a
\* malformed date before any request; a reversed range is swapped and
\* requested; a request that throws is caught and yields [].
fetchPlanetData(k, startDate, endDate, proxyOk) ==
    IF ~Valid(startDate) \/ ~Valid(endDate)
    THEN [threw |-> TRUE, requested |-> FALSE, results |-> << >>]
    ELSE LET lo == IF endDate < startDate THEN endDate ELSE startDate
             hi == IF endDate < startDate THEN startDate ELSE endDate
         IN  IF ~proxyOk
             THEN [threw |-> FALSE, requested |-> TRUE, results |-> << >>]
             ELSE [threw |-> FALSE, requested |-> TRUE,
                   results |-> [n \in 1..(hi - lo + 1) |->
                                  [date |-> lo + n - 1,
                                   data |-> ProviderElements(k, lo + n - 1)]]]

\* existingData[date][index] = dataOf[date] for every date dataOf gives,
\* creating the row of nulls first where the date has none
StoreSlots(existingData, index, dataOf) ==
    [d \in (DOMAIN existingData) \cup (DOMAIN dataOf) |->
        LET row == IF d \in DOMAIN existingData THEN existingData[d] ELSE EmptyRow
        IN  IF d \in DOMAIN dataOf THEN [row EXCEPT ![index] = dataOf[d]] ELSE row]

\* (mutant) the Sun is requested from the provider like the planets
PlanetStep_FetchesSun(existingData, k, dateList, startDateStr, endDateStr, proxy) ==
    LET r == fetchPlanetData(k, startDateStr, endDateStr, proxy[k])
    IN  IF r.threw THEN existingData
        ELSE IF Len(r.results) = 0 THEN existingData
        ELSE StoreSlots(existingData, k,
                        [d \in {r.results[n].date : n \in 1..Len(r.results)} |->
                           (CHOOSE x \in RangeOf(r.results) : x.date = d).data])

\* one iteration of "for (const planet of PLANET_IDS)"
PlanetStep(existingData, k, dateList, startDateStr, endDateStr, proxy) ==
    IF PLANET_IDS[k] = "Sun"
    THEN StoreSlots(existingData, sunIndex, [d \in RangeOf(dateList) |-> SunDefaults])
    ELSE LET r == fetchPlanetData(k, startDateStr, endDateStr, proxy[k])
         IN  IF r.threw THEN existingData                \* caught, logged
             ELSE IF Len(r.results) = 0 THEN existingData \* "No data returned"
             ELSE StoreSlots(existingData, k,
                             [d \in {r.results[n].date : n \in 1..Len(r.results)} |->
                                (CHOOSE x \in RangeOf(r.results) : x.date = d).data])

\* (mutant) a body whose request fails aborts the loop over the bodies
RECURSIVE PlanetLoop_AbortOnFailure(_, _, _, _, _, _)
PlanetLoop_AbortOnFailure(existingData, k, dateList, startDateStr, endDateStr, proxy) ==
    IF k > BodyCount THEN existingData
    ELSE IF PLANET_IDS[k] # "Sun" /\ ~proxy[k] THEN existingData
    ELSE PlanetLoop_AbortOnFailure(
             PlanetStep(existingData, k, dateList, startDateStr, endDateStr, proxy),
             k + 1, dateList, startDateStr, endDateStr, proxy)

RECURSIVE PlanetLoop(_, _, _, _, _, _)
PlanetLoop(existingData, k, dateList, startDateStr, endDateStr, proxy) ==
    IF k > BodyCount THEN existingData
    ELSE PlanetLoop(PlanetStep(existingData, k, dateList, startDateStr, endDateStr, proxy),
                    k + 1, dateList, startDateStr, endDateStr, proxy)

\* the bodies for which a request reached the provider
RequestsIssued(startDateStr, endDateStr, proxy) ==
    {k \in Bodies : PLANET_IDS[k] # "Sun"
                    /\ fetchPlanetData(k, startDateStr, endDateStr, proxy[k]).requested}

\* the data fetchAndStoreDataForRange saves: the stored table (or {}) with
\* every body's results merged in
MergedData(present, stored, startDateStr, endDateStr, proxy) ==
    PlanetLoop(IF present THEN stored ELSE NoTable, 1,
               getDatesBetween(startDateStr, endDateStr),
               startDateStr, endDateStr, proxy)

\* the metadata fetchAndStoreDataForRange writes
\* (mutant) the range is replaced by the new one
ExtendedMeta_Overwrites(present, m, startDateStr, endDateStr) ==
    [hasRange |-> TRUE, start |-> startDateStr, end |-> endDateStr]

ExtendedMeta(present, m, startDateStr, endDateStr) ==
    LET m0 == IF present THEN m
              ELSE [hasRange |-> TRUE, start |-> startDateStr, end |-> startDateStr]
    IN  IF ~m0.hasRange
        THEN [m0 EXCEPT !.hasRange = TRUE, !.start = startDateStr, !.end = endDateStr]
        ELSE [m0 EXCEPT
                !.start = IF DateLT(startDateStr, m0.start) THEN startDateStr ELSE m0.start,
                !.end = IF DateGT(endDateStr, m0.end) THEN endDateStr ELSE m0.end]

\* (mutant) nothing is removed
FilteredData_KeepsAll(allData, cutoffDateStr) == allData

\* (mutant) the cutoff day itself is dropped too: > where the code has >=
FilteredData_DropsCutoff(allData, cutoffDateStr) ==
    [d \in {x \in DOMAIN allData : DateGT(x, cutoffDateStr)} |-> allData[d]]

\* removeDataBeforeDate: the entries kept
FilteredData(allData, cutoffDateStr) ==
    [d \in {x \in DOMAIN allData : DateGE(x, cutoffDateStr)} |-> allData[d]]

Earliest(S) == CHOOSE x \in S : \A y \in S : x <= y

\* removeDataBeforeDate: the metadata written back
PrunedMeta(m, filteredData, cutoffDateStr) ==
    IF DOMAIN filteredData # {}
    THEN [m EXCEPT !.start = Earliest(DOMAIN filteredData)]
    ELSE [m EXCEPT !.start = cutoffDateStr]

\* (mutant) a null slot is not looked for
checkDataAvailability_IgnoresNull(present, allData, startDate, endDate) ==
    IF ~present THEN FALSE
    ELSE LET dateList == getDatesBetween(startDate, endDate)
         IN  \A n \in 1..Len(dateList) : dateList[n] \in DOMAIN allData

\* checkDataAvailability
checkDataAvailability(present, allData, startDate, endDate) ==
    IF ~present THEN FALSE
    ELSE LET dateList == getDatesBetween(startDate, endDate)
         IN  \A n \in 1..Len(dateList) :
                LET date == dateList[n]
                IN  /\ date \in DOMAIN allData
                    /\ Cardinality(DOMAIN allData[date]) = BodyCount
                    /\ \A k \in DOMAIN allData[date] : allData[date][k] # Null

\* getPlanetDataForDate(dateStr): allData[dateStr] || null
getPlanetDataForDate(present, allData, dateStr) ==
    IF ~present THEN Null
    ELSE IF dateStr \in DOMAIN allData THEN allData[dateStr] ELSE Null

\* getDataAvailabilityRange(): meta?.dataRange || null
getDataAvailabilityRange(present, m) ==
    IF present /\ m.hasRange THEN [start |-> m.start, end |-> m.end] ELSE Null

\* ------------------------------------------------------ animation driver
\* Numbers of the driver are fixed-point integers: instants are milliseconds
\* since the midnight of day 0, heliocentric lengths are 10^6 km, scene
\* coordinates are hundredths of a scene unit, body sizes are hundredths,
\* and quotients truncate toward zero.
DayMs == 24 * 60 * 60 * 1000
SecPerDay == 24 * 60 * 60
ExampleDuration == 10 * 1000       \* a 10 s playback, in ms

\* { name, size } of part_003's celestialBodies, in the order of PLANET_IDS
celestialBodies ==
    << [name |-> "Sun", size |-> 200], [name |-> "Mercury", size |-> 40],
       [name |-> "Venus", size |-> 70], [name |-> "Earth", size |-> 100],
       [name |-> "Mars", size |-> 65], [name |-> "Jupiter", size |-> 150],
       [name |-> "Saturn", size |-> 125], [name |-> "Uranus", size |-> 100],
       [name |-> "Neptune", size |-> 100] >>

BodyNames == {celestialBodies[k].name : k \in Bodies}
IndexOf(name) == CHOOSE k \in Bodies : celestialBodies[k].name = name

\* celestialBodies.findIndex((body) => body.name === 'Earth')
earthIndex == IndexOf("Earth")

\* orbitCorrectionMap, in tenths
orbitCorrectionMap ==
    [Sun |-> 10, Mercury |-> 10, Venus |-> 10, Earth |-> 10, Mars |-> 10,
     Jupiter |-> 17, Saturn |-> 32, Uranus |-> 40, Neptune |-> 50]

Origin == [x |-> 0, y |-> 0, z |-> 0]
NaNPosition == [nan |-> TRUE]      \* {x: NaN, y: NaN, z: NaN}
IsNaN(p) == p = NaNPosition

Min(a, b) == IF a <= b THEN a ELSE b
Quot(a, b) == IF a >= 0 THEN a \div b ELSE -((-a) \div b)

\* floor(a * b / c) of naturals, formed without the product a * b
MulDiv(a, b, c) == a * (b \div c) + (a * (b % c)) \div c

\* (mutant) a cosine that is always zero
Cos90_Zero(deg) == 0

\* Math.cos / Math.sin of THREE.MathUtils.degToRad(deg), deg a multiple of 90
Cos90(deg) == << 1, 0, -1, 0 >>[((deg \div 90) % 4) + 1]
Sin90(deg) == << 0, 1, 0, -1 >>[((deg \div 90) % 4) + 1]

\* calculateCelestialPosition(data) with elapsedDays = 0, on the elements the
\* provider reports here: e = 0, so the Kepler iteration stops at E = M, the
\* true anomaly f is M and r is a.  With T = 0 the mean motion n is Infinity,
\* n * 0 is NaN and every coordinate is NaN.
calculateCelestialPosition(data) ==
    IF data.T = 0 THEN NaNPosition
    ELSE LET f == data.M0
             r == data.a
             cosOM == Cos90(data.om)
             sinOM == Sin90(data.om)
             cosW == Cos90(data.w)
             sinW == Sin90(data.w)
             cosI == Cos90(data.i)
             sinI == Sin90(data.i)
             x_prime == r * (cosW * Cos90(f) - sinW * Sin90(f))
             y_prime == r * (sinW * Cos90(f) + cosW * Sin90(f))
             z_prime == r * Sin90(f) * sinI
         IN  [x |-> x_prime * cosOM - y_prime * sinOM,
              y |-> x_prime * sinOM + y_prime * cosOM,
              z |-> z_prime * cosI]

\* (mutant) the nearer of the two days' positions
Lerp_Nearest(currentPos, nextPos, seconds) ==
    IF 2 * seconds < SecPerDay THEN currentPos ELSE nextPos

\* currentPos + (nextPos - currentPos) * progress, progress in seconds of day
Lerp(currentPos, nextPos, seconds) ==
    IF IsNaN(currentPos) \/ IsNaN(nextPos) THEN NaNPosition
    ELSE [x |-> currentPos.x + Quot((nextPos.x - currentPos.x) * seconds, SecPerDay),
          y |-> currentPos.y + Quot((nextPos.y - currentPos.y) * seconds, SecPerDay),
          z |-> currentPos.z + Quot((nextPos.z - currentPos.z) * seconds, SecPerDay)]

\* (mutant) a missing first day falls forward to the following day
calculateInterpolatedPosition_FallsForward(data, planetIndex, exactDate) ==
    LET currentDateStr == exactDate \div DayMs
        nextDateStr == currentDateStr + 1
        has(d) == d \in DOMAIN data /\ data[d][planetIndex] # Null
    IN  IF has(currentDateStr)
        THEN calculateCelestialPosition(data[currentDateStr][planetIndex])
        ELSE IF has(nextDateStr)
        THEN calculateCelestialPosition(data[nextDateStr][planetIndex])
        ELSE Null

\* calculateInterpolatedPosition(planetIndex, exactDate); Null is its null
calculateInterpolatedPosition(data, planetIndex, exactDate) ==
    LET currentDateStr == exactDate \div DayMs
        nextDateStr == currentDateStr + 1
    IN  IF currentDateStr \notin DOMAIN data \/ data[currentDateStr][planetIndex] = Null
        THEN Null
        ELSE LET currentPos == calculateCelestialPosition(data[currentDateStr][planetIndex])
             IN  IF nextDateStr \notin DOMAIN data \/ data[nextDateStr][planetIndex] = Null
                 THEN currentPos
                 ELSE Lerp(currentPos,
                           calculateCelestialPosition(data[nextDateStr][planetIndex]),
                           (exactDate - currentDateStr * DayMs) \div 1000)

\* ProgressSteps steps to the half of the way and as many beyond it
ProgressDen == 2 * ProgressSteps

\* a % n of JavaScript: the quotient is truncated, the sign is that of a
Rem(a, n) == a - n * Quot(a, n)

\* (mutant) the plain difference of the two angles
AngleDiff_Linear(a1, a2) == a2 - a1

\* diff of interpolateAngle once both of its corrections are applied
AngleDiff(a1, a2) ==
    LET diff == Rem(a2 - a1, 360)
        diff1 == IF diff > 180 THEN diff - 360 ELSE diff
    IN  IF diff1 < -180 THEN diff1 + 360 ELSE diff1

\* interpolateAngle(a1, a2, t) with t = k / ProgressDen, in degrees / ProgressDen
interpolateAngle(a1, a2, k) ==
    Rem(a1 * ProgressDen + AngleDiff(a1, a2) * k, 360 * ProgressDen)

\* interpolateOrbitalElements(startData, endData, progress) with
\* progress = k / ProgressDen; every field of the result is in 1 / ProgressDen
interpolateOrbitalElements(startData, endData, k) ==
    [a |-> startData.a * ProgressDen + k * (endData.a - startData.a),
     e |-> startData.e * ProgressDen + k * (endData.e - startData.e),
     i |-> interpolateAngle(startData.i, endData.i, k),
     om |-> interpolateAngle(startData.om, endData.om, k),
     w |-> interpolateAngle(startData.w, endData.w, k),
     M0 |-> interpolateAngle(startData.M0, endData.M0, k),
     T |-> startData.T * ProgressDen + k * (endData.T - startData.T)]

\* ------------------------------------------------------ Kepler's equation
\* Angles of the iteration are radians in units of 10^-8; eccentricities are
\* in units of 10^-8 as well.
Scale == 10000 * 10000
Half == 100 * 100
PI == 314159265
tolerance == 100       \* 1e-6
maxIterations == 10

Abs(x) == IF x < 0 THEN -x ELSE x

\* a * b / Scale, truncated, formed from the halves of a and b so that no
\* intermediate product leaves 32 bits (|a|, |b| < 2 * Scale)
MulScale(a, b) ==
    LET ah == Abs(a) \div Half
        al == Abs(a) % Half
        bh == Abs(b) \div Half
        bl == Abs(b) % Half
        r == ah * bh + (ah * bl + al * bh) \div Half + (al * bl) \div Scale
    IN  IF (a < 0) = (b < 0) THEN r ELSE -r

\* the terms of the sine series of x from the k-th on, term being the one
\* before; eight terms leave an error below 10^-7 on [-PI/2, PI/2]
RECURSIVE SinTerms(_, _, _)
SinTerms(term, x2, k) ==
    IF k > 8 THEN 0
    ELSE LET next == -Quot(MulScale(term, x2), (2 * k) * (2 * k + 1))
         IN  next + SinTerms(next, x2, k + 1)

\* Math.sin(x): x is brought into [-PI/2, PI/2] and the series is summed
Sin(x) ==
    LET r0 == x % (2 * PI)
        r1 == IF r0 > PI THEN r0 - 2 * PI ELSE r0
        r2 == IF 2 * r1 > PI THEN PI - r1
              ELSE IF 2 * r1 < -PI THEN -PI - r1 ELSE r1
    IN  r2 + SinTerms(r2, MulScale(r2, r2), 1)

\* while (Math.abs(E - prevE) > tolerance && iterations < maxIterations)
\*     { prevE = E; E = M + data.e * Math.sin(E); iterations++ }
RECURSIVE KeplerLoop(_, _, _, _, _)
KeplerLoop(M, e, E, prevE, iterations) ==
    IF Abs(E - prevE) > tolerance /\ iterations < maxIterations
    THEN KeplerLoop(M, e, M + MulScale(e, Sin(E)), E, iterations + 1)
    ELSE [E |-> E, prevE |-> prevE, iterations |-> iterations]

\* the eccentric anomaly the solver works with: E = M, prevE = E - 1, then
\* the loop
EccentricAnomaly(M, e) == KeplerLoop(M, e, M, M - Scale, 0)

\* the transform without its case for the Earth
transformToGeocentricVisualization_NoEarthCase(bodyName, position, earthPosition) ==
    IF bodyName = "Sun"
    THEN IF IsNaN(earthPosition) THEN NaNPosition
         ELSE [x |-> -earthPosition.x * ORBIT_VISUALIZATION_SCALE, y |-> 0,
               z |-> -earthPosition.y * ORBIT_VISUALIZATION_SCALE]
    ELSE IF IsNaN(position) \/ IsNaN(earthPosition) THEN NaNPosition
    ELSE LET correctionFactor == orbitCorrectionMap[bodyName]
             geoX == Quot((position.x - earthPosition.x) * ORBIT_VISUALIZATION_SCALE * 10,
                          correctionFactor)
             geoY == Quot((position.y - earthPosition.y) * ORBIT_VISUALIZATION_SCALE * 10,
                          correctionFactor)
             geoZ == Quot((position.z - earthPosition.z) * ORBIT_VISUALIZATION_SCALE * 10,
                          correctionFactor)
         IN  [x |-> geoX, y |-> geoZ, z |-> geoY]

\* transformToGeocentricVisualization(bodyName, position, earthPosition)
transformToGeocentricVisualization(bodyName, position, earthPosition) ==
    IF bodyName = "Earth" THEN Origin
    ELSE IF bodyName = "Sun"
    THEN IF IsNaN(earthPosition) THEN NaNPosition
         ELSE [x |-> -earthPosition.x * ORBIT_VISUALIZATION_SCALE, y |-> 0,
               z |-> -earthPosition.y * ORBIT_VISUALIZATION_SCALE]
    ELSE IF IsNaN(position) \/ IsNaN(earthPosition) THEN NaNPosition
    ELSE LET correctionFactor == orbitCorrectionMap[bodyName]
             geoX == Quot((position.x - earthPosition.x) * ORBIT_VISUALIZATION_SCALE * 10,
                          correctionFactor)
             geoY == Quot((position.y - earthPosition.y) * ORBIT_VISUALIZATION_SCALE * 10,
                          correctionFactor)
             geoZ == Quot((position.z - earthPosition.z) * ORBIT_VISUALIZATION_SCALE * 10,
                          correctionFactor)
         IN  [x |-> geoX, y |-> geoZ, z |-> geoY]

\* the target of a body at exactDate: the transform of its interpolated
\* position (the origin when its data is missing) about the Earth's
TargetPosition(data, index, exactDate) ==
    LET earthResult == calculateInterpolatedPosition(data, earthIndex, exactDate)
        earthOriginalPosition == IF earthResult = Null THEN Origin ELSE earthResult
        planetResult == IF index = earthIndex THEN earthOriginalPosition
                        ELSE calculateInterpolatedPosition(data, index, exactDate)
    IN  transformToGeocentricVisualization(
            celestialBodies[index].name,
            IF planetResult = Null THEN Origin ELSE planetResult,
            earthOriginalPosition)

\* the spring-damper update of one body's cache entry over deltaTime (ms)
SpringStep(body, cache, newTargetPos, deltaTime) ==
    LET cached == IF body.name \in DOMAIN cache
                  THEN [cache[body.name] EXCEPT !.target = newTargetPos]
                  ELSE [target |-> newTargetPos, current |-> newTargetPos,
                        velocity |-> Origin]
        speedFactor == Min(8000, 2000 + body.size * 15)                 \* 1/10000
        stiffness == 28 + (IF body.name = "Sun" THEN 10 ELSE 0)         \* 1/10
        damping == 8000 - body.size * 2                                 \* 1/10000
        gain == (stiffness * deltaTime * speedFactor) \div 10000        \* 1/10000
        v(axis) == Quot(cached.velocity[axis] * damping, 10000)
                   + Quot((cached.target[axis] - cached.current[axis]) * gain, 10000)
        velocity == [x |-> v("x"), y |-> v("y"), z |-> v("z")]
    IN  [target |-> newTargetPos,
         current |-> [x |-> cached.current.x + velocity.x,
                      y |-> cached.current.y + velocity.y,
                      z |-> cached.current.z + velocity.z],
         velocity |-> velocity]

\* Math.min(delta, 0.1), in ms
ClampDelta_Unclamped(delta) == delta
ClampDelta(delta) == Min(delta, MaxDeltaMs)

NoPositions == [n \in {} |-> Origin]
NoFrame == [kind |-> "none", elapsed |-> 0, total |-> 0, largest |-> 0,
            dateChange |-> BadDate, reported |-> NoPositions]

\* the handler's props and derived values
start == session.startDate * DayMs                 \* new Date(startDate)
end == session.endDate * DayMs                     \* new Date(endDate)
totalMs == end - start
animationDuration == session.animationDuration     \* in ms

\* the sessions: playbacks of ShortDuration over 0..MaxSpan days at any
\* frame time, and the 10 s playback of one day on a device whose frames
\* take MaxDeltaMs or longer
Sessions ==
    {[startDate |-> 1, endDate |-> 1 + n, animationDuration |-> ShortDuration,
      deltas |-> {0, SmallDelta, MaxDeltaMs, BigDelta}] : n \in 0..MaxSpan}
    \cup {[startDate |-> 1, endDate |-> 2, animationDuration |-> ExampleDuration,
           deltas |-> {MaxDeltaMs, BigDelta}]}
NoSession == [startDate |-> 0, endDate |-> 0, animationDuration |-> 0, deltas |-> {}]

driverVars == <<session, planetDataByDate, readyToAnimate, isAnimationActive,
                isAnimationComplete, hasStartedRef, accumulatedMsRef,
                currentDateRef, currentDate, sinceDateUpdate, frameCountRef,
                cachedPositionsRef, allPlanetPositions, frame>>

pureVars == <<call, returned>>

\* no function has been applied on its own
NoCall ==
    /\ call = [fn |-> "none", done |-> TRUE]
    /\ returned = Null

\* no SolarSystemScreen is open
DriverUnmounted ==
    /\ session = NoSession
    /\ planetDataByDate = NoTable
    /\ readyToAnimate = FALSE
    /\ isAnimationActive = FALSE
    /\ isAnimationComplete = FALSE
    /\ hasStartedRef = FALSE
    /\ accumulatedMsRef = 0
    /\ currentDateRef = 0
    /\ currentDate = 0
    /\ sinceDateUpdate = 0
    /\ frameCountRef = 0
    /\ cachedPositionsRef = NoPositions
    /\ allPlanetPositions = NoPositions
    /\ frame = NoFrame

\* ------------------------------------------------------------------ Init
Init ==
    /\ tablePresent = FALSE
    /\ table = NoTable
    /\ metaPresent = FALSE
    /\ meta = NoMeta
    /\ last = NoOp
    /\ pc = [p \in Procs |-> "idle"]
    /\ loc = [p \in Procs |-> IdleLoc]
    /\ DriverUnmounted
    /\ NoCall

\* the proxy's answers to one call: TRUE where the request is answered
Proxies == {p \in [Bodies -> BOOLEAN] : \A k \in Bodies \ FailableBodies : p[k]}

\* ------------------------------------------- record of the last operation
ExtendRecord(startDateStr, endDateStr, proxy, wasEmpty) ==
    [op |-> "extend", s |-> startDateStr, e |-> endDateStr,
     wasEmpty |-> wasEmpty,
     failed |-> {k \in Bodies : ~proxy[k]},
     requests |-> RequestsIssued(startDateStr, endDateStr, proxy),
     rejected |-> FALSE]

\* a prune remembers the range of the extendRange completed just before it,
\* when every request of that call was answered
PruneRecord(cutoffDateStr, before) ==
    [op |-> "prune", cutoff |-> cutoffDateStr,
     after |-> IF before.op = "extend" /\ before.failed = {}
               THEN [op |-> "extend", s |-> before.s, e |-> before.e]
               ELSE [op |-> "other"]]

CheckRecord(startDate, endDate, result) ==
    [op |-> "check", s |-> startDate, e |-> endDate, result |-> result]

asyncVars == <<pc, loc>>
storeVars == <<tablePresent, table, metaPresent, meta>>

\* --------------------------------------------------------------- actions
\* fetchAndStoreDataForRange(startDateStr, endDateStr), run to completion
ExtendRange(startDateStr, endDateStr, proxy) ==
    /\ table' = MergedData(tablePresent, table, startDateStr, endDateStr, proxy)
    /\ tablePresent' = TRUE
    /\ meta' = ExtendedMeta(metaPresent, meta, startDateStr, endDateStr)
    /\ metaPresent' = TRUE
    /\ last' = ExtendRecord(startDateStr, endDateStr, proxy,
                            ~tablePresent \/ DOMAIN table = {})
    /\ UNCHANGED <<asyncVars, driverVars, pureVars>>

\* removeDataBeforeDate(cutoffDateStr), run to completion
PruneBefore(cutoffDateStr) ==
    /\ IF ~tablePresent
       THEN UNCHANGED <<tablePresent, table, metaPresent, meta>>
       ELSE /\ table' = FilteredData(table, cutoffDateStr)
            /\ tablePresent' = TRUE
            /\ metaPresent' = metaPresent
            /\ meta' = IF metaPresent /\ meta.hasRange
                       THEN PrunedMeta(meta, FilteredData(table, cutoffDateStr), cutoffDateStr)
                       ELSE meta
    /\ last' = PruneRecord(cutoffDateStr, last)
    /\ UNCHANGED <<asyncVars, driverVars, pureVars>>

\* checkDataAvailability(startDate, endDate)
CheckAvailability(startDate, endDate) ==
    /\ last' = CheckRecord(startDate, endDate,
                           checkDataAvailability(tablePresent, table, startDate, endDate))
    /\ UNCHANGED <<tablePresent, table, metaPresent, meta>>
    /\ UNCHANGED <<asyncVars, driverVars, pureVars>>

\* (mutant) only the table is removed
Clear_KeepsMeta ==
    /\ tablePresent' = FALSE
    /\ table' = NoTable
    /\ last' = [op |-> "clear", wasStored |-> tablePresent]
    /\ UNCHANGED <<metaPresent, meta, asyncVars, driverVars, pureVars>>

\* clearAllData()
Clear ==
    /\ tablePresent' = FALSE
    /\ table' = NoTable
    /\ metaPresent' = FALSE
    /\ meta' = NoMeta
    /\ last' = [op |-> "clear", wasStored |-> tablePresent]
    /\ UNCHANGED <<asyncVars, driverVars, pureVars>>

vars == <<tablePresent, table, metaPresent, meta, last, pc, loc, driverVars, pureVars>>

\* the operations on well-formed ranges (start not after end)
Next ==
    \/ \E s \in Days, e \in Days, p \in Proxies : s <= e /\ ExtendRange(s, e, p)
    \/ \E c \in Days : PruneBefore(c)
    \/ \E s \in Days, e \in Days : s <= e /\ CheckAvailability(s, e)
    \/ Clear

Spec == Init /\ [][Next]_vars

\* the operations on any pair of date strings, malformed ones included
DateInputs == Days \cup {BadDate}

NextAny ==
    \/ \E s \in DateInputs, e \in DateInputs, p \in Proxies : ExtendRange(s, e, p)
    \/ \E c \in Days : PruneBefore(c)
    \/ \E s \in DateInputs, e \in DateInputs : CheckAvailability(s, e)
    \/ Clear

SpecAny == Init /\ [][NextAny]_vars

\* ------------------------------------------- the operations await by await
\* Each action below is the code of one invocation from one await to the
\* next; AsyncStorage performs each getItem / setItem atomically.

\* where an invocation goes when its removeDataBeforeDate returns
AfterPrune(p) == IF loc[p].op = "init" THEN "i_meta" ELSE "done"

\* App: initializeData() calls initializeDataStore(); yesterdayStr is computed
StartInit(p, now) ==
    /\ p = "startup"
    /\ pc[p] = "idle"
    /\ pc' = [pc EXCEPT ![p] = "p_read"]
    /\ loc' = [loc EXCEPT ![p] = [IdleLoc EXCEPT !.op = "init", !.now = now,
                                                  !.cutoff = now - 1]]
    /\ UNCHANGED <<storeVars, last, driverVars, pureVars>>

\* loadPlanetDataForEvent calls fetchAndStoreDataForRange(today, peakDate)
StartExtend(p, startDateStr, endDateStr) ==
    /\ p = "user"
    /\ pc[p] = "idle"
    /\ pc' = [pc EXCEPT ![p] = "e_read"]
    /\ loc' = [loc EXCEPT ![p] = [IdleLoc EXCEPT !.op = "extend", !.s = startDateStr,
                                                  !.e = endDateStr]]
    /\ UNCHANGED <<storeVars, last, driverVars, pureVars>>

\* removeDataBeforeDate: allData = await getAllStoredData(); the filter
PruneRead(p) ==
    /\ pc[p] = "p_read"
    /\ IF ~tablePresent
       THEN /\ pc' = [pc EXCEPT ![p] = AfterPrune(p)]
            /\ loc' = loc
       ELSE /\ pc' = [pc EXCEPT ![p] = "p_save"]
            /\ loc' = [loc EXCEPT ![p].data = FilteredData(table, loc[p].cutoff)]
    /\ UNCHANGED <<storeVars, last, driverVars, pureVars>>

\* removeDataBeforeDate: await saveAllData(filteredData)
PruneSave(p) ==
    /\ pc[p] = "p_save"
    /\ table' = loc[p].data
    /\ tablePresent' = TRUE
    /\ pc' = [pc EXCEPT ![p] = "p_meta"]
    /\ UNCHANGED <<metaPresent, meta, loc, last, driverVars, pureVars>>

\* removeDataBeforeDate: meta = await getMetaData(); the new start
PruneMeta(p) ==
    /\ pc[p] = "p_meta"
    /\ IF metaPresent /\ meta.hasRange
       THEN /\ loc' = [loc EXCEPT ![p].m = PrunedMeta(meta, loc[p].data, loc[p].cutoff)]
            /\ pc' = [pc EXCEPT ![p] = "p_setmeta"]
       ELSE /\ loc' = loc
            /\ pc' = [pc EXCEPT ![p] = AfterPrune(p)]
    /\ UNCHANGED <<storeVars, last, driverVars, pureVars>>

\* removeDataBeforeDate: await setMetaData(meta)
PruneSetMeta(p) ==
    /\ pc[p] = "p_setmeta"
    /\ meta' = loc[p].m
    /\ metaPresent' = TRUE
    /\ pc' = [pc EXCEPT ![p] = AfterPrune(p)]
    /\ UNCHANGED <<tablePresent, table, loc, last, driverVars, pureVars>>

\* initializeDataStore: meta = await getMetaData(); return when the range
\* ends after now, else fetchAndStoreDataForRange(currentDateStr, futureDateStr)
InitMeta(p) ==
    /\ pc[p] = "i_meta"
    /\ IF metaPresent /\ meta.hasRange /\ DateGT(meta.end, loc[p].now)
       THEN /\ pc' = [pc EXCEPT ![p] = "done"]
            /\ loc' = loc
       ELSE /\ pc' = [pc EXCEPT ![p] = "e_read"]
            /\ loc' = [loc EXCEPT ![p].s = loc[p].now,
                                  ![p].e = loc[p].now + HorizonDays]
    /\ UNCHANGED <<storeVars, last, driverVars, pureVars>>

\* fetchAndStoreDataForRange: existingData = await getAllStoredData() || {}
ExtendRead(p) ==
    /\ pc[p] = "e_read"
    /\ loc' = [loc EXCEPT ![p].data = IF tablePresent THEN table ELSE NoTable]
    /\ pc' = [pc EXCEPT ![p] = "e_fetch"]
    /\ UNCHANGED <<storeVars, last, driverVars, pureVars>>

\* fetchAndStoreDataForRange: the loop over the bodies, each body's
\* await fetchPlanetData(...) merged into the local existingData (the awaits
\* of the loop touch no stored state and are taken as one step)
ExtendFetch(p, proxy) ==
    /\ pc[p] = "e_fetch"
    /\ loc' = [loc EXCEPT ![p].data =
                  PlanetLoop(loc[p].data, 1, getDatesBetween(loc[p].s, loc[p].e),
                             loc[p].s, loc[p].e, proxy)]
    /\ pc' = [pc EXCEPT ![p] = "e_save"]
    /\ UNCHANGED <<storeVars, last, driverVars, pureVars>>

\* fetchAndStoreDataForRange: await saveAllData(existingData)
ExtendSave(p) ==
    /\ pc[p] = "e_save"
    /\ table' = loc[p].data
    /\ tablePresent' = TRUE
    /\ pc' = [pc EXCEPT ![p] = "e_meta"]
    /\ UNCHANGED <<metaPresent, meta, loc, last, driverVars, pureVars>>

\* fetchAndStoreDataForRange: meta = await getMetaData() || {...}; the range
ExtendMeta(p) ==
    /\ pc[p] = "e_meta"
    /\ loc' = [loc EXCEPT ![p].m = ExtendedMeta(metaPresent, meta, loc[p].s, loc[p].e)]
    /\ pc' = [pc EXCEPT ![p] = "e_setmeta"]
    /\ UNCHANGED <<storeVars, last, driverVars, pureVars>>

\* fetchAndStoreDataForRange: await setMetaData(meta)
ExtendSetMeta(p) ==
    /\ pc[p] = "e_setmeta"
    /\ meta' = loc[p].m
    /\ metaPresent' = TRUE
    /\ pc' = [pc EXCEPT ![p] = "done"]
    /\ UNCHANGED <<tablePresent, table, loc, last, driverVars, pureVars>>

\* what an earlier session left in storage: nothing, or the data of a
\* completed fetchAndStoreDataForRange(1, e0)
InitAsync ==
    /\ \E e0 \in 0..MaxDay :
         IF e0 = 0
         THEN /\ tablePresent = FALSE /\ table = NoTable
              /\ metaPresent = FALSE /\ meta = NoMeta
         ELSE /\ tablePresent = TRUE
              /\ table = MergedData(FALSE, NoTable, 1, e0, [k \in Bodies |-> TRUE])
              /\ metaPresent = TRUE
              /\ meta = ExtendedMeta(FALSE, NoMeta, 1, e0)
    /\ last = NoOp
    /\ pc = [p \in Procs |-> "idle"]
    /\ loc = [p \in Procs |-> IdleLoc]
    /\ DriverUnmounted
    /\ NoCall

NextAsync ==
    \/ \E p \in Procs, now \in 1..MaxDay : StartInit(p, now)
    \/ \E p \in Procs, s \in Days, e \in Days : s <= e /\ StartExtend(p, s, e)
    \/ \E p \in Procs : PruneRead(p)
    \/ \E p \in Procs : PruneSave(p)
    \/ \E p \in Procs : PruneMeta(p)
    \/ \E p \in Procs : PruneSetMeta(p)
    \/ \E p \in Procs : InitMeta(p)
    \/ \E p \in Procs : ExtendRead(p)
    \/ \E p \in Procs, proxy \in Proxies : ExtendFetch(p, proxy)
    \/ \E p \in Procs : ExtendSave(p)
    \/ \E p \in Procs : ExtendMeta(p)
    \/ \E p \in Procs : ExtendSetMeta(p)

SpecAsync == InitAsync /\ [][NextAsync]_vars

\* an invocation has read the stored table and has not yet written the
\* table and the metadata back
InWindow(p) ==
    pc[p] \in {"p_save", "p_meta", "p_setmeta", "e_fetch", "e_save", "e_meta", "e_setmeta"}

\* the tables a screen is opened with: the dates of the session stored by one
\* call, or the dates before some day k by a call whose requests were all
\* answered and the dates from k on by a later call
LoadedTables(startDateStr, endDateStr) ==
    {MergedData(FALSE, NoTable, startDateStr, endDateStr, proxy) : proxy \in Proxies}
    \cup {MergedData(TRUE,
                     MergedData(FALSE, NoTable, startDateStr, k - 1,
                                [b \in Bodies |-> TRUE]),
                     k, endDateStr, proxy) :
             proxy \in Proxies, k \in (startDateStr + 1)..endDateStr}

\* SolarSystemScreen opened with the data fetched for startDate..endDate,
\* some bodies' requests having failed; the handler's initial state and refs
InitDriver ==
    /\ tablePresent = FALSE /\ table = NoTable
    /\ metaPresent = FALSE /\ meta = NoMeta
    /\ last = NoOp
    /\ pc = [p \in Procs |-> "idle"]
    /\ loc = [p \in Procs |-> IdleLoc]
    /\ session \in Sessions
    /\ planetDataByDate \in LoadedTables(session.startDate, session.endDate)
    /\ readyToAnimate = FALSE
    /\ isAnimationActive = TRUE
    /\ isAnimationComplete = FALSE
    /\ hasStartedRef = FALSE
    /\ accumulatedMsRef = 0
    /\ currentDateRef = session.startDate * DayMs
    /\ currentDate = session.startDate * DayMs
    /\ sinceDateUpdate = DateUpdateMs + 1
    /\ frameCountRef = 0
    /\ cachedPositionsRef = NoPositions
    /\ allPlanetPositions = NoPositions
    /\ frame = NoFrame
    /\ NoCall

cacheVars == <<tablePresent, table, metaPresent, meta, last, pc, loc>>

\* handleReadyToAnimate: readyToAnimate becomes true, the scene is ready and
\* the handler renders; with no positions yet it puts the Earth at the centre
Ready ==
    /\ ~readyToAnimate
    /\ readyToAnimate' = TRUE
    /\ allPlanetPositions' =
         IF DOMAIN allPlanetPositions = {} /\ ~isAnimationComplete
         THEN [n \in {"Earth"} |-> Origin]
         ELSE allPlanetPositions
    /\ UNCHANGED <<session, planetDataByDate, isAnimationActive, isAnimationComplete,
                   hasStartedRef, accumulatedMsRef, currentDateRef, currentDate,
                   sinceDateUpdate, frameCountRef, cachedPositionsRef, frame>>
    /\ UNCHANGED <<cacheVars, pureVars>>

\* the frame's record kept beside the handler: what the frame did, the sums
\* of the clamped and of the raw deltas so far and the largest raw delta
FrameRecord(kind, delta, dateChange, reported) ==
    [kind |-> kind,
     elapsed |-> frame.elapsed + (IF delta > MaxDeltaMs THEN MaxDeltaMs ELSE delta),
     total |-> frame.total + delta,
     largest |-> IF delta > frame.largest THEN delta ELSE frame.largest,
     dateChange |-> dateChange,
     reported |-> reported]

\* earthResult || {x: 0, y: 0, z: 0}
OrOrigin(result) == IF result = Null THEN Origin ELSE result

\* (mutant) a frame that transforms about the Earth of the frame before
Tick_StaleReference(delta) ==
    /\ readyToAnimate
    /\ delta \in session.deltas
    /\ UNCHANGED <<session, planetDataByDate, readyToAnimate>>
    /\ UNCHANGED <<cacheVars, pureVars>>
    /\ IF totalMs <= 0
       THEN /\ frame' = [frame EXCEPT !.kind = "skipped"]
            /\ UNCHANGED <<isAnimationActive, isAnimationComplete, hasStartedRef,
                           accumulatedMsRef, currentDateRef, currentDate,
                           sinceDateUpdate, frameCountRef, cachedPositionsRef,
                           allPlanetPositions>>
       ELSE IF isAnimationActive
       THEN \E deltaTime \in {ClampDelta(delta)} :
            \E accumulated \in {(IF hasStartedRef THEN accumulatedMsRef ELSE 0) + deltaTime} :
            \E elapsedMs \in {Min(MulDiv(accumulated, totalMs, animationDuration), totalMs)} :
            /\ hasStartedRef' = TRUE
            /\ accumulatedMsRef' = accumulated
            /\ IF elapsedMs >= totalMs
               THEN /\ currentDateRef' = end
                    /\ currentDate' = end
                    /\ allPlanetPositions' = allPlanetPositions
                    /\ isAnimationActive' = FALSE
                    /\ isAnimationComplete' = TRUE
                    /\ frame' = FrameRecord("completion", delta, end, NoPositions)
                    /\ UNCHANGED <<sinceDateUpdate, frameCountRef, cachedPositionsRef>>
               ELSE \E exactDate \in {start + elapsedMs} :
                    \E sinceLast \in {sinceDateUpdate + delta} :
                    \E earthOriginalPosition \in
                         {OrOrigin(calculateInterpolatedPosition(planetDataByDate,
                                                                 earthIndex, currentDateRef))} :
                    \E planetResults \in
                         {[n \in BodyNames |->
                             IF IndexOf(n) = earthIndex THEN earthOriginalPosition
                             ELSE OrOrigin(calculateInterpolatedPosition(
                                               planetDataByDate, IndexOf(n), exactDate))]} :
                    \E newTargetPositions \in
                         {[n \in BodyNames |->
                             transformToGeocentricVisualization(n, planetResults[n],
                                                                earthOriginalPosition)]} :
                    \E newCache \in
                         {[n \in BodyNames |->
                             SpringStep(celestialBodies[IndexOf(n)], cachedPositionsRef,
                                        newTargetPositions[n], deltaTime)]} :
                    \E newSmoothedPositions \in {[n \in BodyNames |-> newCache[n].current]} :
                    /\ currentDateRef' = exactDate
                    /\ currentDate' = IF sinceLast > DateUpdateMs THEN exactDate
                                      ELSE currentDate
                    /\ sinceDateUpdate' = IF sinceLast > DateUpdateMs THEN 0
                                          ELSE sinceLast
                    /\ cachedPositionsRef' = newCache
                    /\ allPlanetPositions' = newSmoothedPositions
                    /\ frameCountRef' = frameCountRef + 1
                    /\ frame' = FrameRecord("running", delta,
                                            IF sinceLast > DateUpdateMs THEN exactDate
                                            ELSE BadDate,
                                            newSmoothedPositions)
                    /\ UNCHANGED <<isAnimationActive, isAnimationComplete>>
       ELSE /\ frame' = [frame EXCEPT
                           !.kind = IF isAnimationComplete THEN "complete" ELSE "idle",
                           !.dateChange = BadDate,
                           !.reported = IF isAnimationComplete THEN allPlanetPositions
                                        ELSE NoPositions]
            /\ UNCHANGED <<isAnimationActive, isAnimationComplete, hasStartedRef,
                           accumulatedMsRef, currentDateRef, currentDate,
                           sinceDateUpdate, frameCountRef, cachedPositionsRef,
                           allPlanetPositions>>

\* (mutant) a completion frame that leaves the animation active
Tick_StaysActive(delta) ==
    /\ readyToAnimate
    /\ delta \in session.deltas
    /\ UNCHANGED <<session, planetDataByDate, readyToAnimate>>
    /\ UNCHANGED <<cacheVars, pureVars>>
    /\ IF totalMs <= 0
       THEN /\ frame' = [frame EXCEPT !.kind = "skipped"]
            /\ UNCHANGED <<isAnimationActive, isAnimationComplete, hasStartedRef,
                           accumulatedMsRef, currentDateRef, currentDate,
                           sinceDateUpdate, frameCountRef, cachedPositionsRef,
                           allPlanetPositions>>
       ELSE IF isAnimationActive
       THEN \E deltaTime \in {ClampDelta(delta)} :
            \E accumulated \in {(IF hasStartedRef THEN accumulatedMsRef ELSE 0) + deltaTime} :
            \E elapsedMs \in {Min(MulDiv(accumulated, totalMs, animationDuration), totalMs)} :
            /\ hasStartedRef' = TRUE
            /\ accumulatedMsRef' = accumulated
            /\ IF elapsedMs >= totalMs
               THEN /\ currentDateRef' = end
                    /\ currentDate' = end
                    /\ allPlanetPositions' = allPlanetPositions
                    /\ isAnimationActive' = TRUE
                    /\ isAnimationComplete' = TRUE
                    /\ frame' = FrameRecord("completion", delta, end, NoPositions)
                    /\ UNCHANGED <<sinceDateUpdate, frameCountRef, cachedPositionsRef>>
               ELSE \E exactDate \in {start + elapsedMs} :
                    \E sinceLast \in {sinceDateUpdate + delta} :
                    \E earthOriginalPosition \in
                         {OrOrigin(calculateInterpolatedPosition(planetDataByDate,
                                                                 earthIndex, exactDate))} :
                    \E planetResults \in
                         {[n \in BodyNames |->
                             IF IndexOf(n) = earthIndex THEN earthOriginalPosition
                             ELSE OrOrigin(calculateInterpolatedPosition(
                                               planetDataByDate, IndexOf(n), exactDate))]} :
                    \E newTargetPositions \in
                         {[n \in BodyNames |->
                             transformToGeocentricVisualization(n, planetResults[n],
                                                                earthOriginalPosition)]} :
                    \E newCache \in
                         {[n \in BodyNames |->
                             SpringStep(celestialBodies[IndexOf(n)], cachedPositionsRef,
                                        newTargetPositions[n], deltaTime)]} :
                    \E newSmoothedPositions \in {[n \in BodyNames |-> newCache[n].current]} :
                    /\ currentDateRef' = exactDate
                    /\ currentDate' = IF sinceLast > DateUpdateMs THEN exactDate
                                      ELSE currentDate
                    /\ sinceDateUpdate' = IF sinceLast > DateUpdateMs THEN 0
                                          ELSE sinceLast
                    /\ cachedPositionsRef' = newCache
                    /\ allPlanetPositions' = newSmoothedPositions
                    /\ frameCountRef' = frameCountRef + 1
                    /\ frame' = FrameRecord("running", delta,
                                            IF sinceLast > DateUpdateMs THEN exactDate
                                            ELSE BadDate,
                                            newSmoothedPositions)
                    /\ UNCHANGED <<isAnimationActive, isAnimationComplete>>
       ELSE /\ frame' = [frame EXCEPT
                           !.kind = IF isAnimationComplete THEN "complete" ELSE "idle",
                           !.dateChange = BadDate,
                           !.reported = IF isAnimationComplete THEN allPlanetPositions
                                        ELSE NoPositions]
            /\ UNCHANGED <<isAnimationActive, isAnimationComplete, hasStartedRef,
                           accumulatedMsRef, currentDateRef, currentDate,
                           sinceDateUpdate, frameCountRef, cachedPositionsRef,
                           allPlanetPositions>>

\* (mutant) a frame that resets the accumulator every time
Tick_RestartsClock(delta) ==
    /\ readyToAnimate
    /\ delta \in session.deltas
    /\ UNCHANGED <<session, planetDataByDate, readyToAnimate>>
    /\ UNCHANGED <<cacheVars, pureVars>>
    /\ IF totalMs <= 0
       THEN /\ frame' = [frame EXCEPT !.kind = "skipped"]
            /\ UNCHANGED <<isAnimationActive, isAnimationComplete, hasStartedRef,
                           accumulatedMsRef, currentDateRef, currentDate,
                           sinceDateUpdate, frameCountRef, cachedPositionsRef,
                           allPlanetPositions>>
       ELSE IF isAnimationActive
       THEN \E deltaTime \in {ClampDelta(delta)} :
            \E accumulated \in {0 + deltaTime} :
            \E elapsedMs \in {Min(MulDiv(accumulated, totalMs, animationDuration), totalMs)} :
            /\ hasStartedRef' = TRUE
            /\ accumulatedMsRef' = accumulated
            /\ IF elapsedMs >= totalMs
               THEN /\ currentDateRef' = end
                    /\ currentDate' = end
                    /\ allPlanetPositions' = allPlanetPositions
                    /\ isAnimationActive' = FALSE
                    /\ isAnimationComplete' = TRUE
                    /\ frame' = FrameRecord("completion", delta, end, NoPositions)
                    /\ UNCHANGED <<sinceDateUpdate, frameCountRef, cachedPositionsRef>>
               ELSE \E exactDate \in {start + elapsedMs} :
                    \E sinceLast \in {sinceDateUpdate + delta} :
                    \E earthOriginalPosition \in
                         {OrOrigin(calculateInterpolatedPosition(planetDataByDate,
                                                                 earthIndex, exactDate))} :
                    \E planetResults \in
                         {[n \in BodyNames |->
                             IF IndexOf(n) = earthIndex THEN earthOriginalPosition
                             ELSE OrOrigin(calculateInterpolatedPosition(
                                               planetDataByDate, IndexOf(n), exactDate))]} :
                    \E newTargetPositions \in
                         {[n \in BodyNames |->
                             transformToGeocentricVisualization(n, planetResults[n],
                                                                earthOriginalPosition)]} :
                    \E newCache \in
                         {[n \in BodyNames |->
                             SpringStep(celestialBodies[IndexOf(n)], cachedPositionsRef,
                                        newTargetPositions[n], deltaTime)]} :
                    \E newSmoothedPositions \in {[n \in BodyNames |-> newCache[n].current]} :
                    /\ currentDateRef' = exactDate
                    /\ currentDate' = IF sinceLast > DateUpdateMs THEN exactDate
                                      ELSE currentDate
                    /\ sinceDateUpdate' = IF sinceLast > DateUpdateMs THEN 0
                                          ELSE sinceLast
                    /\ cachedPositionsRef' = newCache
                    /\ allPlanetPositions' = newSmoothedPositions
                    /\ frameCountRef' = frameCountRef + 1
                    /\ frame' = FrameRecord("running", delta,
                                            IF sinceLast > DateUpdateMs THEN exactDate
                                            ELSE BadDate,
                                            newSmoothedPositions)
                    /\ UNCHANGED <<isAnimationActive, isAnimationComplete>>
       ELSE /\ frame' = [frame EXCEPT
                           !.kind = IF isAnimationComplete THEN "complete" ELSE "idle",
                           !.dateChange = BadDate,
                           !.reported = IF isAnimationComplete THEN allPlanetPositions
                                        ELSE NoPositions]
            /\ UNCHANGED <<isAnimationActive, isAnimationComplete, hasStartedRef,
                           accumulatedMsRef, currentDateRef, currentDate,
                           sinceDateUpdate, frameCountRef, cachedPositionsRef,
                           allPlanetPositions>>

\* useFrame((_, delta) => ...): one frame of the mounted handler, delta in ms
\* (a constant of the callback is bound by \E over a singleton)
Tick(delta) ==
    /\ readyToAnimate
    /\ delta \in session.deltas
    /\ UNCHANGED <<session, planetDataByDate, readyToAnimate>>
    /\ UNCHANGED <<cacheVars, pureVars>>
    /\ IF totalMs <= 0
       THEN /\ frame' = [frame EXCEPT !.kind = "skipped"]
            /\ UNCHANGED <<isAnimationActive, isAnimationComplete, hasStartedRef,
                           accumulatedMsRef, currentDateRef, currentDate,
                           sinceDateUpdate, frameCountRef, cachedPositionsRef,
                           allPlanetPositions>>
       ELSE IF isAnimationActive
       THEN \E deltaTime \in {ClampDelta(delta)} :
            \E accumulated \in {(IF hasStartedRef THEN accumulatedMsRef ELSE 0) + deltaTime} :
            \E elapsedMs \in {Min(MulDiv(accumulated, totalMs, animationDuration), totalMs)} :
            /\ hasStartedRef' = TRUE
            /\ accumulatedMsRef' = accumulated
            /\ IF elapsedMs >= totalMs
               THEN /\ currentDateRef' = end
                    /\ currentDate' = end
                    /\ allPlanetPositions' = allPlanetPositions
                    /\ isAnimationActive' = FALSE
                    /\ isAnimationComplete' = TRUE
                    /\ frame' = FrameRecord("completion", delta, end, NoPositions)
                    /\ UNCHANGED <<sinceDateUpdate, frameCountRef, cachedPositionsRef>>
               ELSE \E exactDate \in {start + elapsedMs} :
                    \E sinceLast \in {sinceDateUpdate + delta} :
                    \E earthOriginalPosition \in
                         {OrOrigin(calculateInterpolatedPosition(planetDataByDate,
                                                                 earthIndex, exactDate))} :
                    \E planetResults \in
                         {[n \in BodyNames |->
                             IF IndexOf(n) = earthIndex THEN earthOriginalPosition
                             ELSE OrOrigin(calculateInterpolatedPosition(
                                               planetDataByDate, IndexOf(n), exactDate))]} :
                    \E newTargetPositions \in
                         {[n \in BodyNames |->
                             transformToGeocentricVisualization(n, planetResults[n],
                                                                earthOriginalPosition)]} :
                    \E newCache \in
                         {[n \in BodyNames |->
                             SpringStep(celestialBodies[IndexOf(n)], cachedPositionsRef,
                                        newTargetPositions[n], deltaTime)]} :
                    \E newSmoothedPositions \in {[n \in BodyNames |-> newCache[n].current]} :
                    /\ currentDateRef' = exactDate
                    /\ currentDate' = IF sinceLast > DateUpdateMs THEN exactDate
                                      ELSE currentDate
                    /\ sinceDateUpdate' = IF sinceLast > DateUpdateMs THEN 0
                                          ELSE sinceLast
                    /\ cachedPositionsRef' = newCache
                    /\ allPlanetPositions' = newSmoothedPositions
                    /\ frameCountRef' = frameCountRef + 1
                    /\ frame' = FrameRecord("running", delta,
                                            IF sinceLast > DateUpdateMs THEN exactDate
                                            ELSE BadDate,
                                            newSmoothedPositions)
                    /\ UNCHANGED <<isAnimationActive, isAnimationComplete>>
       ELSE /\ frame' = [frame EXCEPT
                           !.kind = IF isAnimationComplete THEN "complete" ELSE "idle",
                           !.dateChange = BadDate,
                           !.reported = IF isAnimationComplete THEN allPlanetPositions
                                        ELSE NoPositions]
            /\ UNCHANGED <<isAnimationActive, isAnimationComplete, hasStartedRef,
                           accumulatedMsRef, currentDateRef, currentDate,
                           sinceDateUpdate, frameCountRef, cachedPositionsRef,
                           allPlanetPositions>>

FrameDeltas == {SmallDelta, MaxDeltaMs, BigDelta}

\* a frame that arrives with delta 0, among the first frames of a session
StalledTick ==
    /\ frameCountRef < MaxStalledFrames
    /\ Tick(0)

NextDriver ==
    \/ Ready
    \/ \E delta \in FrameDeltas : Tick(delta)
    \/ StalledTick

SpecDriver == InitDriver /\ [][NextDriver]_vars

\* frames keep arriving while the handler is mounted
SpecDriverFair == SpecDriver /\ WF_vars(\E delta \in FrameDeltas : Tick(delta))

\* ------------------------------------------ functions applied on their own
idleVars == <<cacheVars, driverVars>>

\* The tables handed to calculateInterpolatedPosition for a body: each day of
\* 1..InterpDays is absent, or has a row whose slot of the body is null, or
\* has a full row.
SlotStates == {"absent", "null", "data"}

InterpTable(k, status) ==
    [d \in {x \in 1..InterpDays : status[x] # "absent"} |->
        [j \in Bodies |-> IF j = k /\ status[d] = "null" THEN Null
                          ELSE IF j = sunIndex THEN SunDefaults
                          ELSE ProviderElements(j, d)]]

\* instants of a day: its start, a quarter, its middle and its last ms
DayOffsets == {0, DayMs \div 4, DayMs \div 2, DayMs - 1}

InterpolateCalls ==
    {[fn |-> "calculateInterpolatedPosition", done |-> FALSE,
      data |-> InterpTable(k, status), planetIndex |-> k,
      exactDate |-> d * DayMs + off] :
        k \in Bodies, status \in [1..InterpDays -> SlotStates],
        d \in 1..InterpDays, off \in DayOffsets}

\* calculateInterpolatedPosition(planetIndex, exactDate) over planetDataByDate
Interpolate ==
    /\ call.fn = "calculateInterpolatedPosition" /\ ~call.done
    /\ returned' = calculateInterpolatedPosition(call.data, call.planetIndex,
                                                 call.exactDate)
    /\ call' = [call EXCEPT !.done = TRUE]
    /\ UNCHANGED idleVars

\* angles in, below and beyond [0, 360)
BlendAngles == {-370, -190, -10, 0, 10, 170, 190, 350, 370}

BlendElements ==
    {[a |-> l, e |-> 0, i |-> g, om |-> h, w |-> g, M0 |-> h, T |-> 365 * l] :
        l \in {1, 2}, g \in {0, 350}, h \in BlendAngles}

BlendCalls ==
    {[fn |-> "interpolateOrbitalElements", done |-> FALSE,
      startData |-> X, endData |-> Y, progress |-> k] :
        X \in BlendElements, Y \in BlendElements, k \in 0..ProgressDen}

\* interpolateOrbitalElements(startData, endData, progress)
Blend ==
    /\ call.fn = "interpolateOrbitalElements" /\ ~call.done
    /\ returned' = interpolateOrbitalElements(call.startData, call.endData,
                                              call.progress)
    /\ call' = [call EXCEPT !.done = TRUE]
    /\ UNCHANGED idleVars

\* eccentricities 0, 0.1, ... 0.9 and mean anomalies spread over [0, 2 PI)
KeplerCalls ==
    {[fn |-> "EccentricAnomaly", done |-> FALSE,
      M |-> (j * 2 * (PI \div AnomalySteps)), e |-> k * (Scale \div 10)] :
        j \in 0..(AnomalySteps - 1), k \in 0..9}

\* the iteration of calculateCelestialPosition for Kepler's equation
Kepler ==
    /\ call.fn = "EccentricAnomaly" /\ ~call.done
    /\ returned' = EccentricAnomaly(call.M, call.e)
    /\ call' = [call EXCEPT !.done = TRUE]
    /\ UNCHANGED idleVars

\* circular orbits of radius 0, 1 and 2, turned by quarter turns, with a
\* period of a year or of 0 days (the Sun's stored elements among them)
SolveElements ==
    {[a |-> l, e |-> 0, i |-> g, om |-> h, w |-> g, M0 |-> m, T |-> t] :
        l \in 0..2, g \in {0, 90}, h \in {0, 90, 180, 270},
        m \in {0, 90, 180, 270}, t \in {0, 365}}

SolveCalls ==
    {[fn |-> "calculateCelestialPosition", done |-> FALSE, data |-> X] :
        X \in SolveElements}

\* calculateCelestialPosition(data), elapsedDays left at its default 0
Solve ==
    /\ call.fn = "calculateCelestialPosition" /\ ~call.done
    /\ returned' = calculateCelestialPosition(call.data)
    /\ call' = [call EXCEPT !.done = TRUE]
    /\ UNCHANGED idleVars

PureCalls == InterpolateCalls \cup BlendCalls \cup KeplerCalls \cup SolveCalls

\* a call is about to be made; nothing is stored and no screen is open
InitPure ==
    /\ tablePresent = FALSE /\ table = NoTable
    /\ metaPresent = FALSE /\ meta = NoMeta
    /\ last = NoOp
    /\ pc = [p \in Procs |-> "idle"]
    /\ loc = [p \in Procs |-> IdleLoc]
    /\ DriverUnmounted
    /\ call \in PureCalls
    /\ returned = Null

NextPure ==
    \/ Interpolate
    \/ Blend
    \/ Kepler
    \/ Solve

SpecPure == InitPure /\ [][NextPure]_vars

\* ------------------------------------------------------------------ claims
\* a row that is a list of exactly BodyCount slots, none of them null
CompleteDay(d) ==
    /\ tablePresent
    /\ d \in DOMAIN table
    /\ DOMAIN table[d] = 1..BodyCount
    /\ \A k \in 1..BodyCount : table[d][k] # Null

C3_InvalidRangeRejected ==
    (/\ last.op = "extend"
     /\ (~Valid(last.s) \/ ~Valid(last.e) \/ last.e < last.s))
    => /\ last.requests = {}
       /\ last.rejected

\* C4: extendRange and pruneBefore never interleave on the table: while one
\* invocation is between its read of the table and its last write, no other
\* invocation is.
C4_SingleWriter ==
    \A p \in Procs, q \in Procs : (p # q /\ InWindow(p)) => ~InWindow(q)

\* the position rendered for a body: allPlanetPositions[body.name] || origin
HeldPosition(n) ==
    IF n \in DOMAIN allPlanetPositions THEN allPlanetPositions[n] ELSE Origin

\* the transform of the interpolated position of a body at endDate
EndPosition(n) == TargetPosition(planetDataByDate, IndexOf(n), end)

\* C5: on the frame at which the driver goes from running to complete, the
\* position it holds and reports for every body is the transform of the
\* interpolated position at endDate, with no spring smoothing.
C5_CompletionSnapsToEnd ==
    frame.kind = "completion" =>
        \A n \in BodyNames :
            /\ HeldPosition(n) = EndPosition(n)
            /\ n \in DOMAIN frame.reported
            /\ frame.reported[n] = EndPosition(n)

\* C6: once started (readyToAnimate and isAnimationActive), with frames of
\* positive delta arriving forever, the driver eventually completes
\* (isAnimationActive false), whatever the span (>= 0) and the duration (> 0).
C6_EventuallyComplete ==
    (readyToAnimate /\ isAnimationActive) ~> ~isAnimationActive

\* C7: after a running frame the mapped instant is
\* startDate + (accumulated / duration) * (endDate - startDate), accumulated
\* being the sum of the frames' deltas each clamped to 100 ms (the instant is
\* a whole number of ms); and with a span of one day and a duration of 10 s,
\* after frames of at most 100 ms totalling 5 s it is the noon of startDate.
C7_MappedInstant ==
    frame.kind = "running" =>
        /\ currentDateRef =
             session.startDate * DayMs
             + MulDiv(frame.elapsed, (session.endDate - session.startDate) * DayMs,
                      session.animationDuration)
        /\ (/\ session.endDate = session.startDate + 1
            /\ session.animationDuration = ExampleDuration
            /\ frame.largest <= 100
            /\ frame.total = 5000)
           => currentDateRef = session.startDate * DayMs + 12 * 60 * 60 * 1000

C7_Witness ==
    /\ frame.kind = "running"
    /\ session.endDate = session.startDate + 1
    /\ session.animationDuration = ExampleDuration
    /\ frame.largest <= 100
    /\ frame.total = 5000
    /\ currentDateRef = session.startDate * DayMs + 12 * 60 * 60 * 1000

\* heliocentric positions handed to the transform
SamplePositions ==
    {Origin, [x |-> 150, y |-> 0, z |-> 0], [x |-> -58, y |-> 58, z |-> 7],
     NaNPosition}

\* C8: the transform returns the origin for 'Earth' whatever position and
\* Earth position it is given, so the spring target of the Earth is the
\* origin after every frame.
C8_EarthAtOrigin ==
    /\ \A position \in SamplePositions, earthPosition \in SamplePositions :
         transformToGeocentricVisualization("Earth", position, earthPosition) = Origin
    /\ "Earth" \in DOMAIN cachedPositionsRef =>
         cachedPositionsRef["Earth"].target = Origin

C8_Witness ==
    /\ frame.kind = "running"
    /\ "Earth" \in DOMAIN cachedPositionsRef
    /\ cachedPositionsRef["Earth"].target = Origin
    /\ cachedPositionsRef["Sun"].target # Origin
    /\ \E position \in SamplePositions, earthPosition \in SamplePositions :
         position # earthPosition


C10_PruneExact ==
    [][(last'.op = "prune" /\ tablePresent)
       => /\ DOMAIN table' = {d \in DOMAIN table : d >= last'.cutoff}
          /\ \A d \in DOMAIN table' : table'[d] = table[d]]_vars

C10_Witness ==
    /\ last.op = "prune"
    /\ last.after.op = "extend"
    /\ last.after.s < last.cutoff
    /\ last.after.s \notin DOMAIN table
    /\ last.cutoff \in DOMAIN table


\* C11: extendRange(s, e) with s <= e on a cache whose metadata range was
\* [ms, me] leaves the range [min(ms, s), max(me, e)]; on a cache with no
\* metadata it leaves exactly [s, e].
C11_RangeWidened ==
    [][last'.op = "extend"
       => /\ metaPresent'
          /\ getDataAvailabilityRange(metaPresent', meta') =
               IF metaPresent /\ meta.hasRange
               THEN [start |-> IF meta.start < last'.s THEN meta.start ELSE last'.s,
                     end |-> IF meta.end > last'.e THEN meta.end ELSE last'.e]
               ELSE [start |-> last'.s, end |-> last'.e]]_vars

C11_Witness ==
    /\ last.op = "extend"
    /\ ~last.wasEmpty
    /\ last.s < last.e
    /\ getDataAvailabilityRange(metaPresent, meta) # Null
    /\ meta.start < last.s
    /\ meta.end = last.e

NothingStored ==
    /\ ~tablePresent
    /\ ~metaPresent
    /\ \A d \in DateInputs : getPlanetDataForDate(tablePresent, table, d) = Null
    /\ getDataAvailabilityRange(metaPresent, meta) = Null
    /\ \A s \in DateInputs, e \in DateInputs :
         ~checkDataAvailability(tablePresent, table, s, e)

\* C13: when clear() has completed the table and the metadata are absent,
\* the per-date read, the availability range and checkAvailability answer
\* absent / false, and this lasts until an extendRange stores data again.
C13_ClearWipes ==
    [][/\ last'.op = "clear" => NothingStored'
       /\ (NothingStored /\ last'.op # "extend") => NothingStored']_vars

C13_Witness ==
    /\ last.op = "clear"
    /\ last.wasStored
    /\ NothingStored


\* the table of the call has elements for the body on day d
HasElements(d) ==
    d \in DOMAIN call.data /\ call.data[d][call.planetIndex] # Null

\* C14: the interpolator returns absent whenever the table has no entry for
\* the date of exactInstant or that entry's slot of the body is null,
\* whatever the following date holds, and a position in every other case.
C14_AbsentIffFirstDayMissing ==
    (call.fn = "calculateInterpolatedPosition" /\ call.done) =>
        IF HasElements(call.exactDate \div DayMs)
        THEN /\ returned # Null
             /\ IsNaN(returned) \/ DOMAIN returned = {"x", "y", "z"}
        ELSE returned = Null

C14_Witness ==
    /\ call.fn = "calculateInterpolatedPosition" /\ call.done
    /\ ~HasElements(call.exactDate \div DayMs)
    /\ (call.exactDate \div DayMs) \in DOMAIN call.data
    /\ HasElements((call.exactDate \div DayMs) + 1)
    /\ returned = Null

AngularFields == {"i", "om", "w", "M0"}
LinearFields == {"a", "e", "T"}

\* C16: interpolateOrbitalElements(X, X, t) equals X field by field for any
\* elements X and any t in [0, 1], angular fields that are negative or at
\* least 360 included
C16_RoundTrip ==
    (call.fn = "interpolateOrbitalElements" /\ call.done
        /\ call.startData = call.endData)
    => \A f \in AngularFields \cup LinearFields :
          returned[f] = call.startData[f] * ProgressDen

\* C17: every angular field of the blend is (a + diff * t) % 360 for a signed
\* difference diff in [-180, 180] congruent to b - a modulo 360; the blend of
\* M0 = 350 and M0 = 10 at t = 0.5 has M0 = 0
C17_ShortestArc ==
    (call.fn = "interpolateOrbitalElements" /\ call.done)
    => /\ \A f \in AngularFields :
            \E diff \in -180..180 :
                /\ (diff - (call.endData[f] - call.startData[f])) % 360 = 0
                /\ returned[f] = Rem(call.startData[f] * ProgressDen
                                        + diff * call.progress,
                                     360 * ProgressDen)
       /\ (call.startData.M0 = 350 /\ call.endData.M0 = 10
             /\ 2 * call.progress = ProgressDen) => returned.M0 = 0

\* the blend of M0 = 350 and M0 = 10 at the half of the way has been computed
C17_Witness ==
    /\ call.fn = "interpolateOrbitalElements" /\ call.done
    /\ call.startData.M0 = 350 /\ call.endData.M0 = 10
    /\ 2 * call.progress = ProgressDen
    /\ returned.M0 = 0

\* C18: for every eccentricity in [0, 0.9] and every mean anomaly in
\* [0, 2 PI) the iteration E <- M + e sin(E) from E = M ends with
\* |E_k - E_(k-1)| < 1e-6 within 10 iterations
C18_Converges ==
    (call.fn = "EccentricAnomaly" /\ call.done)
    => /\ returned.iterations <= maxIterations
       /\ Abs(returned.E - returned.prevE) < tolerance

\* the elements {a: 1, e: 0, i: 0, om: 0, w: 0, M0: 0, T: 365.25}; at
\* elapsedDays 0 the period enters only through being non-zero, and is held
\* in whole days
UnitCircle == [a |-> 1, e |-> 0, i |-> 0, om |-> 0, w |-> 0, M0 |-> 0, T |-> 365]

\* C19: calculateCelestialPosition on {a: 1, e: 0, i: 0, om: 0, w: 0, M0: 0,
\* T: 365.25} with elapsedDays 0 returns (1, 0, 0)
C19_UnitCircle ==
    (call.fn = "calculateCelestialPosition" /\ call.done /\ call.data = UnitCircle)
    => returned = [x |-> 1, y |-> 0, z |-> 0]

\* the position of the unit circular orbit has been computed
C19_Witness ==
    /\ call.fn = "calculateCelestialPosition" /\ call.done
    /\ call.data = UnitCircle
    /\ returned = [x |-> 1, y |-> 0, z |-> 0]

\* C20: calculateCelestialPosition returns the origin (0, 0, 0) whenever
\* a = 0, the all-zero elements stored for the Sun included
C20_OriginWhenNoAxis ==
    (call.fn = "calculateCelestialPosition" /\ call.done /\ call.data.a = 0)
    => returned = Origin

\* C21: in every running frame the Earth's heliocentric position at the
\* frame's instant is computed first, and the transform of every body in that
\* frame (the Sun, which comes before the Earth in celestialBodies, included)
\* is taken about that position, never about the one of an earlier frame
C21_ReferenceOfTheFrame ==
    frame.kind = "running" =>
        LET earthOriginalPosition ==
                OrOrigin(calculateInterpolatedPosition(planetDataByDate, earthIndex,
                                                       currentDateRef))
        IN  \A n \in BodyNames :
                cachedPositionsRef[n].target =
                    transformToGeocentricVisualization(
                        n,
                        IF IndexOf(n) = earthIndex THEN earthOriginalPosition
                        ELSE OrOrigin(calculateInterpolatedPosition(
                                          planetDataByDate, IndexOf(n), currentDateRef)),
                        earthOriginalPosition)

\* a second or later running frame in which the Earth has moved since the
\* start, the Sun being placed about the Earth of this frame
C21_Witness ==
    /\ frame.kind = "running"
    /\ frameCountRef >= 2
    /\ calculateInterpolatedPosition(planetDataByDate, earthIndex, currentDateRef) # Null
    /\ calculateInterpolatedPosition(planetDataByDate, earthIndex, currentDateRef)
         # calculateInterpolatedPosition(planetDataByDate, earthIndex, start)
    /\ cachedPositionsRef["Sun"].target =
         transformToGeocentricVisualization(
             "Sun", Origin,
             calculateInterpolatedPosition(planetDataByDate, earthIndex, currentDateRef))

\* C22: when a body's elements are missing at the instant of a frame, after
\* the body had a position in the frame before, the body holds its last known
\* position: the position reported for it equals the one reported in the
\* frame before
C22_HoldsLastKnown ==
    [][\A n \in BodyNames :
         (/\ frame.kind = "running" /\ frame'.kind = "running"
          /\ calculateInterpolatedPosition(planetDataByDate, IndexOf(n),
                                           currentDateRef) # Null
          /\ calculateInterpolatedPosition(planetDataByDate, IndexOf(n),
                                           currentDateRef') = Null)
         => frame'.reported[n] = frame.reported[n]]_vars

\* C23: complete is absorbing: once the driver is complete it is never
\* running again, the simulated date stays at endDate, and every later frame
\* reports the body positions held at the completion frame
C23_CompleteAbsorbing ==
    [][isAnimationComplete =>
         /\ ~isAnimationActive /\ currentDateRef = end /\ currentDate = end
         /\ isAnimationComplete' /\ ~isAnimationActive'
         /\ currentDateRef' = end /\ currentDate' = end
         /\ accumulatedMsRef' = accumulatedMsRef
         /\ allPlanetPositions' = allPlanetPositions
         /\ frame'.kind = "complete"
         /\ frame'.reported = allPlanetPositions]_vars

\* a frame after the completion frame has reported the held positions of all
\* bodies
C23_Witness ==
    /\ isAnimationComplete /\ ~isAnimationActive
    /\ frame.kind = "complete"
    /\ currentDateRef = end
    /\ DOMAIN allPlanetPositions = BodyNames
    /\ frame.reported = allPlanetPositions

\* C24: for every true anomaly f and every w, i, om that are multiples of 90
\* degrees the position is the 3-1-3 Euler rotation of the in-plane point
\* (r cos f, r sin f, 0):
\*   x = r (cos om cos(w+f) - sin om sin(w+f) cos i),
\*   y = r (sin om cos(w+f) + cos om sin(w+f) cos i),
\*   z = r sin(w+f) sin i
\* (on the circular orbits of the calls r = a and f = M0)
C24_EulerRotation ==
    (call.fn = "calculateCelestialPosition" /\ call.done /\ call.data.T # 0)
    => LET r == call.data.a
           u == call.data.w + call.data.M0
           om == call.data.om
           i == call.data.i
       IN  returned =
             [x |-> r * (Cos90(om) * Cos90(u) - Sin90(om) * Sin90(u) * Cos90(i)),
              y |-> r * (Sin90(om) * Cos90(u) + Cos90(om) * Sin90(u) * Cos90(i)),
              z |-> r * Sin90(u) * Sin90(i)]

\* C25: extendRange requests from the provider only the slots that are not in
\* the table yet: when every slot of every date of [start, end] is filled, it
\* issues no request and leaves every stored record as it was
C25_FetchesOnlyMissing ==
    [][(/\ last'.op = "extend"
        /\ tablePresent
        /\ \A d \in (last'.s)..(last'.e) : CompleteDay(d))
       => (last'.requests = {} /\ table' = table)]_vars

\* C26: for angles a and b in [0, 360) and t in [0, 1] every angular field of
\* the blend is the mathematical (a + diff * t) mod 360, so it lies in
\* [0, 360) and is never negative
C26_AngleInRange ==
    (call.fn = "interpolateOrbitalElements" /\ call.done)
    => \A f \in AngularFields :
         (call.startData[f] \in 0..359 /\ call.endData[f] \in 0..359)
         => /\ returned[f] >= 0 /\ returned[f] < 360 * ProgressDen
            /\ \E diff \in -180..180 :
                 /\ (diff - (call.endData[f] - call.startData[f])) % 360 = 0
                 /\ returned[f] = (call.startData[f] * ProgressDen
                                      + diff * call.progress) % (360 * ProgressDen)

\* C27: whenever the metadata holds a range [start, end], every calendar date
\* d with start <= d <= end has an entry in the table
C27_RangeCovered ==
    getDataAvailabilityRange(metaPresent, meta) # Null
    => \A d \in (meta.start)..(meta.end) :
         getPlanetDataForDate(tablePresent, table, d) # Null

\* C29: whenever the metadata holds a range, its start date is not later than
\* its end date
C29_RangeOrdered ==
    getDataAvailabilityRange(metaPresent, meta) # Null
    => DateLE(getDataAvailabilityRange(metaPresent, meta).start,
              getDataAvailabilityRange(metaPresent, meta).end)

\* C28: no update is lost when two fetchAndStoreDataForRange calls for
\* different ranges are in flight together: the write of one call never
\* removes a date entry the other has written, so that the table holds every
\* date entry written by either call once both have completed
C28_NoLostUpdate ==
    [][\A p \in Procs :
         (pc[p] = "e_save" /\ pc'[p] = "e_meta" /\ tablePresent)
         => DOMAIN table \subseteq DOMAIN table']_vars

\* the dates of the driver lie in [startDate, endDate]
DatesInSpan ==
    session # NoSession =>
        /\ start <= currentDateRef /\ currentDateRef <= end
        /\ start <= currentDate /\ currentDate <= end
        /\ frame.dateChange # BadDate =>
             (start <= frame.dateChange /\ frame.dateChange <= end)

====
